---- MODULE Spec2Model ----
(***************************************************************************)
(* helm-unittest: the failing-template validator                          *)
(* (FailedTemplateValidator.Validate and its helpers) and the plugin      *)
(* entry point (main / RunPlugin).                                        *)
(*                                                                         *)
(* A Go string is a sequence of one-character strings; a diagnostic is    *)
(* the record of the arguments handed to splitInfof.  Go's 0-based        *)
(* manifest index idx addresses Manifests[idx + 1].                       *)
(***************************************************************************)
EXTENDS Integers, Sequences, FiniteSets, TLC

\* ------------------------------------------------------------------ bounds

MaxManifests == 3
MaxPatLen == 2

\* ------------------------------------------------------------- input sets

PatChars == {"a", ".", "*"}

SeqsUpTo(S, n) == UNION {[1..k -> S] : k \in 0..n}

\* interface{} values found under manifest[common.RAW]
NilValue == [type |-> "nil", val |-> <<>>]
IntValue == [type |-> "int", val |-> <<"5">>]
Str(s) == [type |-> "string", val |-> s]

RawValues == {NilValue, IntValue, Str(<<"a">>), Str(<<"b">>), Str(<<"b", "a">>)}
ManifestLists == SeqsUpTo(RawValues, MaxManifests)
Patterns == SeqsUpTo(PatChars, MaxPatLen)
Messages == {<<>>, <<"a">>, <<"b", "a">>}

NoError == [isNil |-> TRUE, msg |-> <<>>]
RenderErr(m) == [isNil |-> FALSE, msg |-> m]
RenderErrors == {NoError, RenderErr(<<"a">>), RenderErr(<<"b", "a">>)}

Validators == [ErrorMessage : Messages, ErrorPattern : Patterns]
Contexts == [Manifests : ManifestLists, Negative : BOOLEAN, FailFast : BOOLEAN,
             RenderError : RenderErrors]

\* ------------------------------------------------------- regexp (Go RE2)

\* regexp.Compile on the pattern alphabet: a repetition operator needs an
\* operand and may not be nested.
RegexpCompile(p) ==
    IF Len(p) >= 1 /\ p[1] = "*"
    THEN [ok |-> FALSE, err |-> <<"missing argument to repetition operator">>]
    ELSE IF \E i \in 1..(Len(p) - 1) : p[i] = "*" /\ p[i + 1] = "*"
    THEN [ok |-> FALSE, err |-> <<"invalid nested repetition operator">>]
    ELSE [ok |-> TRUE, err |-> <<>>]

CharMatch(pc, c) == pc = "." \/ pc = c

\* does p match a prefix of t
RECURSIVE MatchHere(_, _)
MatchHere(p, t) ==
    IF p = <<>> THEN TRUE
    ELSE IF Len(p) >= 2 /\ p[2] = "*"
    THEN \/ MatchHere(SubSeq(p, 3, Len(p)), t)
         \/ (t # <<>> /\ CharMatch(p[1], t[1]) /\ MatchHere(p, Tail(t)))
    ELSE t # <<>> /\ CharMatch(p[1], t[1]) /\ MatchHere(Tail(p), Tail(t))

\* (*Regexp).MatchString: unanchored search
MatchString(p, t) ==
    \E k \in 1..(Len(t) + 1) : MatchHere(p, SubSeq(t, k, Len(t)))

\* ------------------------------------------------------------ diagnostics

errorFormat == [name |-> "error", not |-> FALSE, showActual |-> FALSE, custom |-> ""]

setFailFormat(not, getPath, actual, diff, customMessage) ==
    [name |-> "fail", not |-> not, showActual |-> actual, custom |-> customMessage]

splitInfof(format, manifestIndex, actualIndex, replacements) ==
    << [format |-> format, manifestIndex |-> manifestIndex,
        actualIndex |-> actualIndex, args |-> replacements] >>

\* fmt.Sprintf("%s", actual)
Sprintf(actual) ==
    IF actual.type = "string" THEN actual.val
    ELSE IF actual.type = "nil" THEN <<"%!s(<nil>)">>
    ELSE <<"%!s(int=">> \o actual.val \o <<")">>

\* cmp.Or(a.ErrorMessage, a.ErrorPattern)
cmpOr(x, y) == IF x # <<>> THEN x ELSE y

failInfo(a, actual, manifestIndex, actualIndex, not) ==
    LET customMessage == IF a.ErrorPattern # <<>> THEN " to match" ELSE " to equal"
        message == cmpOr(a.ErrorMessage, a.ErrorPattern)
    IN  IF not
        THEN splitInfof(setFailFormat(not, FALSE, FALSE, FALSE, customMessage),
                        manifestIndex, actualIndex, <<message>>)
        ELSE splitInfof(setFailFormat(not, FALSE, TRUE, FALSE, customMessage),
                        manifestIndex, actualIndex, <<message, Sprintf(actual)>>)

\* ------------------------------------------------------ the single checks

Ret(ok, errs) == [panic |-> FALSE, ok |-> ok, errs |-> errs]
Panic == [panic |-> TRUE, ok |-> FALSE, errs |-> <<>>]

\* validateErrorPattern without the negation: fails whenever nothing matches
validateErrorPattern_NoNegation(a, actual, manifestIndex, actualIndex, context) ==
    LET c == RegexpCompile(a.ErrorPattern)
    IN  IF ~c.ok
        THEN Ret(FALSE, splitInfof(errorFormat, -1, -1, <<c.err>>))
        ELSE IF actual.type = "nil"
        THEN Ret(FALSE, failInfo(a, actual, manifestIndex, actualIndex, context.Negative))
        ELSE IF actual.type # "string"
        THEN Panic
        ELSE IF ~MatchString(a.ErrorPattern, actual.val)
             THEN Ret(FALSE, failInfo(a, actual, manifestIndex, actualIndex, context.Negative))
             ELSE Ret(TRUE, <<>>)

validateErrorPattern(a, actual, manifestIndex, actualIndex, context) ==
    LET c == RegexpCompile(a.ErrorPattern)
    IN  IF ~c.ok
        THEN Ret(FALSE, splitInfof(errorFormat, -1, -1, <<c.err>>))
        ELSE IF actual.type = "nil"
        THEN IF FALSE = context.Negative
             THEN Ret(FALSE, failInfo(a, actual, manifestIndex, actualIndex, context.Negative))
             ELSE Ret(TRUE, <<>>)
        ELSE IF actual.type # "string"
        THEN Panic
        ELSE IF MatchString(a.ErrorPattern, actual.val) = context.Negative
             THEN Ret(FALSE, failInfo(a, actual, manifestIndex, actualIndex, context.Negative))
             ELSE Ret(TRUE, <<>>)

\* validateErrorMessage without the negation: fails whenever the texts differ
validateErrorMessage_NoNegation(a, actual, manifestIndex, actualIndex, context) ==
    IF actual.type = "nil"
    THEN Ret(FALSE, failInfo(a, actual, manifestIndex, actualIndex, context.Negative))
    ELSE IF actual.type # "string"
    THEN Panic
    ELSE IF a.ErrorMessage # actual.val
         THEN Ret(FALSE, failInfo(a, actual, manifestIndex, actualIndex, context.Negative))
         ELSE Ret(TRUE, <<>>)

validateErrorMessage(a, actual, manifestIndex, actualIndex, context) ==
    IF actual.type = "nil"
    THEN IF FALSE = context.Negative
         THEN Ret(FALSE, failInfo(a, actual, manifestIndex, actualIndex, context.Negative))
         ELSE Ret(TRUE, <<>>)
    ELSE IF actual.type # "string"
    THEN Panic
    ELSE IF (a.ErrorMessage = actual.val) = context.Negative
         THEN Ret(FALSE, failInfo(a, actual, manifestIndex, actualIndex, context.Negative))
         ELSE Ret(TRUE, <<>>)

\* overall success starts true; any failure makes it false for good
determineSuccess(idx, preSuccess, success) == preSuccess /\ success

getManifests(context) == context.Manifests

\* ------------------------------------------- validateManifests, by parts

\* line 60: a == (FailedTemplateValidator{}) && !context.Negative
isSkipped(a, context) ==
    a.ErrorMessage = <<>> /\ a.ErrorPattern = <<>> /\ ~context.Negative

\* lines 66-73: the check of one manifest
checkManifest(a, actual, idx, context) ==
    IF a.ErrorPattern # <<>>
    THEN validateErrorPattern(a, actual, idx, -1, context)
    ELSE IF a.ErrorMessage # <<>>
    THEN validateErrorMessage(a, actual, idx, -1, context)
    ELSE Ret(TRUE, <<>>)

\* the loop stops at the first failure whether or not failFast is set
breaksLoop_AnyFailure(success, context) == ~success

\* lines 78-80
breaksLoop(success, context) == ~success /\ context.FailFast

\* the accumulator overwritten by the latest check
loopBody_LastWins(a, manifests, idx, success, errors, context) ==
    LET actual == manifests[idx + 1]
    IN  IF isSkipped(a, context)
        THEN [step |-> "continue", success |-> success, errors |-> errors]
        ELSE LET r == checkManifest(a, actual, idx, context)
                 s == r.ok
             IN  IF r.panic
                 THEN [step |-> "panic", success |-> success, errors |-> errors]
                 ELSE [step |-> IF breaksLoop(s, context) THEN "break" ELSE "next",
                       success |-> s, errors |-> errors \o r.errs]

\* One iteration of the loop of lines 54-81 for manifests[idx]:
\* step is "continue" (skipped), "panic", "next" or "break".
loopBody(a, manifests, idx, success, errors, context) ==
    LET actual == manifests[idx + 1]
    IN  IF isSkipped(a, context)
        THEN [step |-> "continue", success |-> success, errors |-> errors]
        ELSE LET r == checkManifest(a, actual, idx, context)
                 s == determineSuccess(idx, success, r.ok)
             IN  IF r.panic
                 THEN [step |-> "panic", success |-> success, errors |-> errors]
                 ELSE [step |-> IF breaksLoop(s, context) THEN "break" ELSE "next",
                       success |-> s, errors |-> errors \o r.errs]

\* the empty collection fails under negation too
afterLoop_IgnoresNegative(a, manifests, success, errors, context) ==
    IF Len(manifests) = 0
    THEN [passed |-> FALSE,
          diagnostics |-> errors \o
              failInfo(a, Str(<<"No failed document">>), -1, -1, context.Negative)]
    ELSE [passed |-> success, diagnostics |-> errors]

\* the 'No failed document' failure raised for populated collections too
afterLoop_IgnoresLength(a, manifests, success, errors, context) ==
    IF ~context.Negative
    THEN [passed |-> FALSE,
          diagnostics |-> errors \o
              failInfo(a, Str(<<"No failed document">>), -1, -1, context.Negative)]
    ELSE [passed |-> success, diagnostics |-> errors]

\* lines 83-89: after the loop
afterLoop(a, manifests, success, errors, context) ==
    IF Len(manifests) = 0 /\ ~context.Negative
    THEN [passed |-> FALSE,
          diagnostics |-> errors \o
              failInfo(a, Str(<<"No failed document">>), -1, -1, context.Negative)]
    ELSE [passed |-> success, diagnostics |-> errors]

\* ---------------------------------------------------------------- Validate

\* the second test of line 123 inverted
bothSet_SecondInverted(a) == a.ErrorMessage # <<>> /\ a.ErrorPattern = <<>>

\* line 123
bothSet(a) == a.ErrorMessage # <<>> /\ a.ErrorPattern # <<>>

bothSetError ==
    splitInfof(errorFormat, -1, -1,
      <<"single attribute 'errorMessage' or 'errorPattern' supported at the same time">>)

\* lines 117-137: what Validate does before it may call validateManifests;
\* to is "done" (returned) or "loop" (validateManifests entered).
validateEntry(a, context) ==
    IF bothSet(a)
    THEN [to |-> "done", passed |-> FALSE, diagnostics |-> bothSetError]
    ELSE IF ~context.RenderError.isNil
    THEN IF a.ErrorPattern # <<>>
         THEN LET r == validateErrorPattern(a, Str(context.RenderError.msg), -1, -1, context)
              IN  [to |-> "done", passed |-> r.ok, diagnostics |-> r.errs]
         ELSE IF a.ErrorMessage # <<>>
         THEN LET r == validateErrorMessage(a, Str(context.RenderError.msg), -1, -1, context)
              IN  [to |-> "done", passed |-> r.ok, diagnostics |-> r.errs]
         ELSE [to |-> "done", passed |-> TRUE, diagnostics |-> <<>>]
    ELSE [to |-> "loop", passed |-> FALSE, diagnostics |-> <<>>]

\* ------------------------------------------------------- main / RunPlugin

Flags == [debugLogging : BOOLEAN, useFailfast : BOOLEAN, useStrict : BOOLEAN,
          colored : BOOLEAN, updateSnapshot : BOOLEAN, withSubChart : BOOLEAN,
          testFiles : {<<>>, <<"t.yaml">>}]

\* what cobra is handed: a flag it cannot parse, the help flag, --color
\* given, and the positional chart paths
CommandLines == [badFlag : BOOLEAN, help : BOOLEAN, colorChanged : BOOLEAN,
                 chartPaths : {<<>>, <<"chart">>}]

defaultFilePattern == "tests/*_test.yaml"

NoRunner == [set |-> FALSE, colored |-> "nil", UpdateSnapshot |-> FALSE,
             WithSubChart |-> FALSE, Strict |-> FALSE, Failfast |-> FALSE,
             TestFiles |-> <<>>, RenderPath |-> ""]

\* cmd.Execute up to the call of Run: "error", "help" (nil, Run not
\* called) or "run".  Args: cobra.MinimumNArgs(1).
cmdExecute(c) ==
    IF c.badFlag THEN "error"
    ELSE IF c.help THEN "help"
    ELSE IF Len(c.chartPaths) < 1 THEN "error"
    ELSE "run"

\* lines 76-105: the TestRunner RunPlugin builds
buildRunner(cfg, c) ==
    [set |-> TRUE,
     colored |-> IF c.colorChanged THEN (IF cfg.colored THEN "true" ELSE "false") ELSE "nil",
     UpdateSnapshot |-> cfg.updateSnapshot,
     WithSubChart |-> cfg.withSubChart,
     Strict |-> cfg.useStrict,
     Failfast |-> cfg.useFailfast,
     TestFiles |-> IF Len(cfg.testFiles) = 0 THEN <<defaultFilePattern>> ELSE cfg.testFiles,
     RenderPath |-> IF cfg.debugLogging THEN ".debug" ELSE ""]

\* RunPlugin returning to cobra whatever RunV3 said
runPluginExit_NeverExits(passed) == -1

\* lines 112-116: os.Exit(1) unless RunV3 passed; -1 is "returns to cobra"
runPluginExit(passed) == IF ~passed THEN 1 ELSE -1

\* lines 121-124: main after cmd.Execute returned err
mainExit(err) == IF err THEN 1 ELSE 0

\* ------------------------------------------------------------------ state

VARIABLES
    a,                \* the FailedTemplateValidator value
    context,          \* the ValidateContext
    pc,               \* "start", "loop", "break", "done", "panic"
    idx,              \* loop index of validateManifests (0-based)
    validateSuccess,  \* validateManifests' accumulator
    validateErrors,   \* validateManifests' diagnostics so far
    result,           \* what Validate returned: [passed, diagnostics]
    testConfig,       \* the flags bound by InitPluginFlags
    cli,              \* the command line as cobra sees it
    testRunner,       \* the package-level unittest.TestRunner
    mpc,              \* "main", "returned", "exited"
    exitCode,         \* the process exit code, -1 while running
    ranV3             \* "no", "true", "false": what RunV3 returned, if called

vvars == <<a, context, pc, idx, validateSuccess, validateErrors, result>>
mvars == <<testConfig, cli, testRunner, mpc, exitCode, ranV3>>
vars == <<a, context, pc, idx, validateSuccess, validateErrors, result,
          testConfig, cli, testRunner, mpc, exitCode, ranV3>>

NoResult == [passed |-> FALSE, diagnostics |-> <<>>]

\* ---- the validator: Validate on every validator value and context

InitValidator ==
    /\ a \in Validators
    /\ context \in Contexts
    /\ pc = "start"
    /\ idx = 0
    /\ validateSuccess = TRUE
    /\ validateErrors = <<>>
    /\ result = NoResult

IdleMain ==
    /\ testConfig = CHOOSE f \in Flags : TRUE
    /\ cli = CHOOSE c \in CommandLines : TRUE
    /\ testRunner = NoRunner
    /\ mpc = "idle"
    /\ exitCode = -1
    /\ ranV3 = "no"

Init == InitValidator /\ IdleMain

\* Validate up to its first return or the call of validateManifests
Validate ==
    /\ pc = "start"
    /\ LET e == validateEntry(a, context)
       IN  /\ pc' = e.to
           /\ result' = IF e.to = "done"
                        THEN [passed |-> e.passed, diagnostics |-> e.diagnostics]
                        ELSE result
    /\ idx' = 0
    /\ validateSuccess' = TRUE
    /\ validateErrors' = <<>>
    /\ UNCHANGED <<a, context>>
    /\ UNCHANGED mvars

\* one iteration of the range loop
LoopIteration ==
    /\ pc = "loop"
    /\ idx < Len(getManifests(context))
    /\ LET b == loopBody(a, getManifests(context), idx, validateSuccess,
                         validateErrors, context)
       IN  /\ validateSuccess' = b.success
           /\ validateErrors' = b.errors
           /\ pc' = CASE b.step = "panic" -> "panic"
                      [] b.step = "break" -> "break"
                      [] OTHER -> "loop"
           /\ idx' = IF b.step \in {"continue", "next"} THEN idx + 1 ELSE idx
    /\ UNCHANGED <<a, context, result>>
    /\ UNCHANGED mvars

\* the loop is over: lines 83-89, then Validate's lines 140-144
ValidateManifestsReturn ==
    /\ \/ pc = "loop" /\ idx >= Len(getManifests(context))
       \/ pc = "break"
    /\ result' = afterLoop(a, getManifests(context), validateSuccess,
                           validateErrors, context)
    /\ pc' = "done"
    /\ validateErrors' = result'.diagnostics
    /\ validateSuccess' = result'.passed
    /\ UNCHANGED <<a, context, idx>>
    /\ UNCHANGED mvars

Next == Validate \/ LoopIteration \/ ValidateManifestsReturn

Spec == Init /\ [][Next]_vars

\* ---- the plugin process

IdleValidator ==
    /\ a = CHOOSE v \in Validators : TRUE
    /\ context = CHOOSE c \in Contexts : TRUE
    /\ pc = "idle"
    /\ idx = 0
    /\ validateSuccess = TRUE
    /\ validateErrors = <<>>
    /\ result = NoResult

InitMain ==
    /\ IdleValidator
    /\ testConfig \in Flags
    /\ cli \in CommandLines
    /\ testRunner = NoRunner
    /\ mpc = "main"
    /\ exitCode = -1
    /\ ranV3 = "no"

\* cmd.Execute fails before Run: main prints the error and exits
ExecuteError ==
    /\ mpc = "main"
    /\ cmdExecute(cli) = "error"
    /\ mpc' = "exited"
    /\ exitCode' = mainExit(TRUE)
    /\ UNCHANGED <<testConfig, cli, testRunner, ranV3>>
    /\ UNCHANGED vvars

\* cmd.Execute prints the usage and returns nil without calling Run
ExecuteHelp ==
    /\ mpc = "main"
    /\ cmdExecute(cli) = "help"
    /\ mpc' = "exited"
    /\ exitCode' = mainExit(FALSE)
    /\ UNCHANGED <<testConfig, cli, testRunner, ranV3>>
    /\ UNCHANGED vvars

\* cmd.Execute calls RunPlugin, which runs the suites
RunPlugin ==
    /\ mpc = "main"
    /\ cmdExecute(cli) = "run"
    /\ testConfig' = [testConfig EXCEPT !.testFiles =
                        IF Len(@) = 0 THEN <<defaultFilePattern>> ELSE @]
    /\ testRunner' = buildRunner(testConfig, cli)
    /\ \E passed \in BOOLEAN :
         /\ ranV3' = IF passed THEN "true" ELSE "false"
         /\ LET code == runPluginExit(passed)
            IN  /\ exitCode' = code
                /\ mpc' = IF code = -1 THEN "returned" ELSE "exited"
    /\ UNCHANGED cli
    /\ UNCHANGED vvars

\* RunPlugin returned, cmd.Execute returns nil, main returns
MainReturn ==
    /\ mpc = "returned"
    /\ mpc' = "exited"
    /\ exitCode' = mainExit(FALSE)
    /\ UNCHANGED <<testConfig, cli, testRunner, ranV3>>
    /\ UNCHANGED vvars

NextMain == ExecuteError \/ ExecuteHelp \/ RunPlugin \/ MainReturn

SpecMain == InitMain /\ [][NextMain]_vars

\* ================================================================ claims

BothSet == a.ErrorMessage # <<>> /\ a.ErrorPattern # <<>>
NoneSet == a.ErrorMessage = <<>> /\ a.ErrorPattern = <<>>
OnlyPattern == a.ErrorMessage = <<>> /\ a.ErrorPattern # <<>>
OnlyMessage == a.ErrorMessage # <<>> /\ a.ErrorPattern = <<>>
ValidPattern == RegexpCompile(a.ErrorPattern).ok
NoRenderError == context.RenderError.isNil
Returned == pc = "done"
Passes == pc = "done" /\ result.passed
NumManifests == Len(context.Manifests)
RawAt(i) == context.Manifests[i + 1]
IsText(raw) == raw.type \in {"string", "nil"}
RawMatches(raw) == raw.type = "string" /\ MatchString(a.ErrorPattern, raw.val)
RawEquals(raw) == raw.type = "string" /\ raw.val = a.ErrorMessage
AnyManifestMatches == \E i \in 0..(NumManifests - 1) : RawMatches(RawAt(i))
Tags(errs) == [k \in 1..Len(errs) |-> errs[k].manifestIndex]

\* the manifest at 0-based index i has been evaluated by the loop
Visited(i) == i < idx \/ (pc \in {"break", "done"} /\ i = idx)

\* the check of the manifest at index i fails (section 4.2, step 3)
FailsAt(i) ==
    IF OnlyPattern
    THEN ~ValidPattern \/ (IsText(RawAt(i)) /\ (RawMatches(RawAt(i)) = context.Negative))
    ELSE IF OnlyMessage
    THEN IsText(RawAt(i)) /\ (RawEquals(RawAt(i)) = context.Negative)
    ELSE FALSE

Indices == [k \in 1..NumManifests |-> k - 1]
FailedVisited == SelectSeq(Indices, LAMBDA i : Visited(i) /\ FailsAt(i))

\* C1: with errorMessage and errorPattern both set, Validate returns
\* passed=false with exactly the one configuration-error diagnostic (index
\* -1), whatever the manifests, the render error, negative and failFast,
\* and never enters the manifest loop.
C1_BothSetAlwaysFails ==
    BothSet =>
        /\ pc \in {"start", "done"}
        /\ Returned =>
             /\ result.passed = FALSE
             /\ Len(result.diagnostics) = 1
             /\ result.diagnostics[1].format.name = "error"
             /\ result.diagnostics[1].manifestIndex = -1
             /\ result.diagnostics[1].args =
                  <<"single attribute 'errorMessage' or 'errorPattern' supported at the same time">>

C1_Witness ==
    /\ Returned /\ BothSet /\ ~NoRenderError /\ NumManifests > 0
    /\ context.Negative /\ context.FailFast /\ ~result.passed

\* C2 as claimed: with only a valid errorPattern and no render error,
\* Validate passes iff negative = ~anyManifestMatches(pattern).
C2_PassesIffNegativeIsNotAny ==
    (Returned /\ OnlyPattern /\ ValidPattern /\ NoRenderError) =>
        (result.passed <=> (context.Negative = ~AnyManifestMatches))

\* C2 amended: with only a valid errorPattern and no render error, Validate
\* passes iff, for negative=false, the collection is non-empty and every
\* manifest's raw field is a string matching the pattern; for negative=true,
\* every manifest's raw field is absent or a string not matching it.
C2_PassesIffEveryManifestPasses ==
    (pc \in {"done", "panic"} /\ OnlyPattern /\ ValidPattern /\ NoRenderError) =>
        (Passes <=>
            IF context.Negative
            THEN \A i \in 0..(NumManifests - 1) :
                    IsText(RawAt(i)) /\ ~RawMatches(RawAt(i))
            ELSE /\ NumManifests > 0
                 /\ \A i \in 0..(NumManifests - 1) : RawMatches(RawAt(i)))

C2_Witness ==
    /\ Returned /\ OnlyPattern /\ ValidPattern /\ NoRenderError
    /\ ~context.Negative /\ ~context.FailFast
    /\ AnyManifestMatches
    /\ \E i \in 0..(NumManifests - 1) : RawAt(i).type = "string" /\ ~RawMatches(RawAt(i))
    /\ ~result.passed

\* C3: no render error, empty manifest collection, parameters not both set:
\* negative=false gives passed=false with exactly the 'No failed document'
\* diagnostic (manifest index -1); negative=true gives passed=true and no
\* diagnostics.
C3_EmptyCollection ==
    (Returned /\ NoRenderError /\ NumManifests = 0 /\ ~BothSet) =>
        IF context.Negative
        THEN result = [passed |-> TRUE, diagnostics |-> <<>>]
        ELSE /\ result.passed = FALSE
             /\ Len(result.diagnostics) = 1
             /\ result.diagnostics[1].format.name = "fail"
             /\ result.diagnostics[1].manifestIndex = -1
             /\ result.diagnostics[1].args[2] = <<"No failed document">>

C3_Witness ==
    /\ Returned /\ NoRenderError /\ NumManifests = 0 /\ OnlyPattern
    /\ ~context.Negative /\ ~result.passed /\ Len(result.diagnostics) = 1

\* C4: with a render error and parameters not both set, the verdict is a
\* function of the error message, the parameters and negative alone: only a
\* valid errorPattern: passes iff (pattern matches message) # negative; only
\* errorMessage: passes iff (message = errorMessage) # negative; neither:
\* passes with no diagnostics.  A failure carries manifest index -1.
C4_RenderErrorVerdict ==
    (~NoRenderError /\ ~BothSet) =>
        /\ pc \in {"start", "done"}
        /\ Returned =>
             /\ (OnlyPattern /\ ValidPattern) =>
                   (result.passed <=>
                      (MatchString(a.ErrorPattern, context.RenderError.msg) # context.Negative))
             /\ OnlyMessage =>
                   (result.passed <=>
                      ((context.RenderError.msg = a.ErrorMessage) # context.Negative))
             /\ NoneSet => result = [passed |-> TRUE, diagnostics |-> <<>>]
             /\ ~result.passed =>
                   /\ Len(result.diagnostics) = 1
                   /\ result.diagnostics[1].manifestIndex = -1
             /\ result.passed => result.diagnostics = <<>>

C4_Witness ==
    /\ Returned /\ OnlyMessage /\ context.RenderError.msg = <<"b", "a">>
    /\ a.ErrorMessage = <<"a">> /\ ~context.Negative /\ ~result.passed
    /\ NumManifests > 0 /\ context.FailFast

\* C5 as claimed: an errorPattern that does not compile (errorMessage
\* empty) makes Validate return passed=false with a diagnostic reporting the
\* compile error, without a crash, in every context.
C5_InvalidPatternAlwaysFails ==
    (OnlyPattern /\ ~ValidPattern) =>
        /\ pc # "panic"
        /\ Returned =>
             /\ result.passed = FALSE
             /\ \E k \in 1..Len(result.diagnostics) :
                   result.diagnostics[k].format.name = "error"

\* C7 as claimed: no render error, exactly one parameter set: the
\* diagnostics of the loop are those of the failing manifests visited, in
\* index order, each tagged with its manifest's own index.
C7_DiagnosticsTaggedWithOwnIndex ==
    (NoRenderError /\ (OnlyPattern \/ OnlyMessage) /\ NumManifests > 0
       /\ pc \in {"loop", "break", "panic", "done"}) =>
        Tags(validateErrors) = FailedVisited

\* C7 amended: as claimed, except that when errorPattern does not compile
\* every visited manifest fails with the compile-error diagnostic, which is
\* tagged -1 and not with the manifest's index.  With failFast=false no
\* manifest is left out after a failure; with failFast=true the only failing
\* manifest visited is the last one visited.
C7_DiagnosticsFollowFailingManifests ==
    (NoRenderError /\ (OnlyPattern \/ OnlyMessage) /\ NumManifests > 0
       /\ pc \in {"loop", "break", "panic", "done"}) =>
        /\ Len(validateErrors) = Len(FailedVisited)
        /\ \A k \in 1..Len(validateErrors) :
              IF OnlyPattern /\ ~ValidPattern
              THEN /\ validateErrors[k].manifestIndex = -1
                   /\ validateErrors[k].format.name = "error"
              ELSE /\ validateErrors[k].manifestIndex = FailedVisited[k]
                   /\ validateErrors[k].format.name = "fail"
        /\ Returned => result.diagnostics = validateErrors
        /\ ~context.FailFast =>
              /\ pc # "break"
              /\ Returned => idx = NumManifests
        /\ context.FailFast =>
              /\ Len(FailedVisited) <= 1
              /\ Len(FailedVisited) = 1 =>
                    (pc \in {"break", "done"} /\ FailedVisited[1] = idx)
              /\ (Returned /\ Len(FailedVisited) = 0) => idx = NumManifests

C7_Witness ==
    /\ Returned /\ NoRenderError /\ OnlyMessage /\ NumManifests = 3
    /\ ~context.FailFast /\ ~context.Negative
    /\ Tags(result.diagnostics) = <<0, 2>>

\* C8: in the manifest loop the overall success starts true and, once a
\* visited manifest has failed, is false after every later iteration and in
\* the returned result; for a non-empty collection the verdict is true iff
\* no evaluated manifest failed.
C8_SuccessIsNoVisitedFailure ==
    (NoRenderError /\ ~BothSet /\ NumManifests > 0
       /\ pc \in {"loop", "break", "panic", "done"}) =>
        /\ validateSuccess = (FailedVisited = <<>>)
        /\ Returned => result.passed = (FailedVisited = <<>>)

C8_MonotonicFailure ==
    [][(pc \in {"loop", "break"} /\ ~validateSuccess) => ~validateSuccess']_vars

C8_Aggregation == []C8_SuccessIsNoVisitedFailure /\ C8_MonotonicFailure

C8_Witness ==
    /\ Returned /\ NoRenderError /\ OnlyPattern /\ ValidPattern /\ NumManifests = 3
    /\ ~context.FailFast
    /\ FailsAt(0) /\ ~FailsAt(1) /\ ~FailsAt(2)
    /\ ~result.passed

\* C9: a zero-parameter validator with no render error, negative=false and
\* a non-empty collection returns passed=true with no diagnostics, whatever
\* the manifests hold and whatever failFast is.
C9_ZeroParameterSkips ==
    (NoneSet /\ NoRenderError /\ ~context.Negative /\ NumManifests > 0) =>
        /\ pc \in {"start", "loop", "done"}
        /\ validateErrors = <<>>
        /\ Returned => result = [passed |-> TRUE, diagnostics |-> <<>>]

C9_Witness ==
    /\ Returned /\ NoneSet /\ NoRenderError /\ ~context.Negative
    /\ NumManifests = 2 /\ RawAt(0) = IntValue /\ context.FailFast
    /\ result.passed

\* C10 as claimed: a raw field that is neither a string nor absent never
\* crashes Validate when errorPattern or errorMessage is set.
C10_NonStringRawNeverCrashes ==
    ((OnlyPattern \/ OnlyMessage)
       /\ \E i \in 0..(NumManifests - 1) : ~IsText(RawAt(i))) =>
        pc # "panic"

\* C6 as claimed: the process exits 0 iff RunV3 returned true, and 1 in
\* every other outcome.
C6_ExitZeroIffRunV3Passed ==
    mpc = "exited" =>
        /\ exitCode \in {0, 1}
        /\ exitCode = 0 <=> ranV3 = "true"

\* C6 amended: the process exits 0 iff RunV3 returned true or cobra served
\* the help flag without calling RunPlugin; in every other outcome (RunV3
\* returned false, or parsing the command line failed) it exits 1.
C6_ExitZeroIffPassedOrHelp ==
    mpc = "exited" =>
        /\ exitCode \in {0, 1}
        /\ exitCode = 0 <=>
              (ranV3 = "true" \/ (ranV3 = "no" /\ ~cli.badFlag /\ cli.help))

C6_Witness ==
    /\ mpc = "exited" /\ exitCode = 0 /\ ranV3 = "no" /\ cli.help

====
